---- MODULE Spec2Model ----
(***************************************************************************)
(* Model of the two MorseCodeDecoderRobot scripts of the repository.       *)
(*                                                                         *)
(*   GearsBot variant: Dual_sensor_follower_GearsBot_30030295.py 1-203     *)
(*   EV3 variant     : the same file, lines 206-425                        *)
(*                                                                         *)
(* The decode loop (decode_path) samples a colour and an obstacle reading  *)
(* once per iteration.  Time is counted in integer ticks and the clock     *)
(* never runs backwards.  An iteration that closes an interval reads the   *)
(* clock twice: for the duration (line 95) and, after the classification,  *)
(* for the new start time (line 114); the second read may return a later   *)
(* value than the first.  Strings are sequences of one-character strings.  *)
(* Python's None is the value -1, which no colour code and no clock value  *)
(* takes.                                                                  *)
(* Motor and speaker commands (adjust_heading, announce_start, speak)      *)
(* write to hardware only and read nothing back; they are left out.        *)
(***************************************************************************)
EXTENDS Integers, Sequences, FiniteSets, TLC

VARIABLES
    variant,                \* which script runs: "GearsBot" or "EV3"
    pc,                     \* position of the main program
    exception,              \* exception that ended the program, or "none"
    now,                    \* time of the last iteration: its sample, and its
                            \* time.time() read of line 95 when it made one
    detected_color,         \* local of decode_path (after the 4/7 -> 5 aliasing)
    obstacle_nearby,        \* local of decode_path
    last_detected_color,    \* self.last_detected_color
    signal_start_time,      \* self.signal_start_time
    first_signal_duration,  \* self.first_signal_duration
    decoded_message,        \* self.decoded_message
    morse_code_message,     \* argument of the last translate_to_text call
    text_message,           \* value returned by the last translate_to_text call
    color_start_time,       \* history: time at which the current colour run began
    plain_text,             \* history: text a translated message was built from
    track,                  \* environment: the colour runs laid out ahead, or <<>>
    raw_color,              \* history: colour code of the last sample as read
    first_sample_time,      \* history: time of the first sample of the session
    runs_ended,             \* history: number of colour runs that have ended
    intervals_closed,       \* history: number of intervals timed and classified
    duration_sum            \* history: sum of the durations measured for them

vars == <<variant, pc, exception, now, detected_color, obstacle_nearby,
          last_detected_color, signal_start_time, first_signal_duration,
          decoded_message, morse_code_message, text_message,
          color_start_time, plain_text, track, raw_color,
          first_sample_time, runs_ended, intervals_closed, duration_sum>>

\* the variables that only record what happened or what lies ahead
observations == <<raw_color, first_sample_time, runs_ended, intervals_closed,
                  duration_sum>>

----------------------------------------------------------------------------
(* Bounds of the model *)

MaxTime == 5
MaxStep == 2
MaxLen == 5
MaxGapTime == 10
MaxGapLen == 8
MaxMsgLen == 6
MaxTextLen == 4
MaxObsTime == 4
MaxObsLen == 4
MaxRuns == 4
MaxLead == 2
MaxTrackTime == 15
MaxTrackLen == 12
MaxLag == 1

----------------------------------------------------------------------------
(* Values *)

None == -1

Variants == {"GearsBot", "EV3"}

NO_COLOR == 0
BLACK == 1
BLUE == 2
GREEN == 3
YELLOW == 4
RED == 5
WHITE == 6
BROWN == 7

\* the readings of path_color_sensor.color
RawColors == {NO_COLOR, BLACK, BLUE, GREEN, YELLOW, RED, WHITE, BROWN}

dot == "."
dash == "-"
gap == " "
word_gap == "|"

END_GAPS == 7

morse_to_alpha_numeric ==
    <<".","-">> :> "A" @@ <<"-",".",".",".">> :> "B" @@ <<"-",".","-",".">> :> "C" @@
    <<"-",".",".">> :> "D" @@ <<".">> :> "E" @@ <<".",".","-",".">> :> "F" @@
    <<"-","-",".">> :> "G" @@ <<".",".",".",".">> :> "H" @@ <<".",".">> :> "I" @@
    <<".","-","-","-">> :> "J" @@ <<"-",".","-">> :> "K" @@ <<".","-",".",".">> :> "L" @@
    <<"-","-">> :> "M" @@ <<"-",".">> :> "N" @@ <<"-","-","-">> :> "O" @@
    <<".","-","-",".">> :> "P" @@ <<"-","-",".","-">> :> "Q" @@ <<".","-",".">> :> "R" @@
    <<".",".",".">> :> "S" @@ <<"-">> :> "T" @@ <<".",".","-">> :> "U" @@
    <<".",".",".","-">> :> "V" @@ <<".","-","-">> :> "W" @@ <<"-",".",".","-">> :> "X" @@
    <<"-",".","-","-">> :> "Y" @@ <<"-","-",".",".">> :> "Z" @@ <<"-","-","-","-","-">> :> "0" @@
    <<".","-","-","-","-">> :> "1" @@ <<".",".","-","-","-">> :> "2" @@ <<".",".",".","-","-">> :> "3" @@
    <<".",".",".",".","-">> :> "4" @@ <<".",".",".",".",".">> :> "5" @@ <<"-",".",".",".",".">> :> "6" @@
    <<"-","-",".",".",".">> :> "7" @@ <<"-","-","-",".",".">> :> "8" @@ <<"-","-","-","-",".">> :> "9"

----------------------------------------------------------------------------
(* Python string operations used by the scripts *)

\* c * n
RECURSIVE Rep(_, _)
Rep(c, n) == IF n <= 0 THEN <<>> ELSE <<c>> \o Rep(c, n - 1)

\* s.endswith(suffix)
EndsWith(s, suffix) ==
    /\ Len(s) >= Len(suffix)
    /\ SubSeq(s, Len(s) - Len(suffix) + 1, Len(s)) = suffix

\* s.find(sep) + 1, or 0 when sep does not occur in s
Find(s, sep) ==
    LET hits == {i \in 1..(Len(s) - Len(sep) + 1) :
                    SubSeq(s, i, i + Len(sep) - 1) = sep}
    IN  IF hits = {} THEN 0 ELSE CHOOSE i \in hits : \A j \in hits : i <= j

\* s.split(sep) for a non-empty separator: a sequence of strings
RECURSIVE Split(_, _)
Split(s, sep) ==
    LET i == Find(s, sep)
    IN  IF i = 0 THEN <<s>>
        ELSE <<SubSeq(s, 1, i - 1)>> \o Split(SubSeq(s, i + Len(sep), Len(s)), sep)

\* s.lstrip() and s.rstrip(); the only whitespace character in use is ' '
RECURSIVE LStrip(_)
LStrip(s) == IF s # <<>> /\ Head(s) = " " THEN LStrip(Tail(s)) ELSE s

RECURSIVE RStrip(_)
RStrip(s) ==
    IF s # <<>> /\ s[Len(s)] = " " THEN RStrip(SubSeq(s, 1, Len(s) - 1)) ELSE s

\* s.strip()
Strip(s) == LStrip(RStrip(s))

\* round() as round-half-up instead of round-half-even
RoundDiv_half_up(n, d) == (2 * n + d) \div (2 * d)

\* int(round(n / d)) for integers n >= 0 and d > 0: Python 3 rounds halves to even
RoundDiv(n, d) ==
    LET q == n \div d
        r == n % d
    IN  IF 2 * r < d THEN q
        ELSE IF 2 * r > d THEN q + 1
        ELSE IF q % 2 = 0 THEN q ELSE q + 1

----------------------------------------------------------------------------
(* translate_to_text *)

\* get(symbol, symbol): an unknown code is passed through instead of dropped
dict_get_echo(symbol) ==
    IF symbol \in DOMAIN morse_to_alpha_numeric
    THEN <<morse_to_alpha_numeric[symbol]>>
    ELSE symbol

\* self.morse_to_alpha_numeric.get(symbol, '')
dict_get(symbol) ==
    IF symbol \in DOMAIN morse_to_alpha_numeric
    THEN <<morse_to_alpha_numeric[symbol]>>
    ELSE <<>>

\* the separator the outer split uses: three gaps (GearsBot), '|' (EV3)
word_separator(v) == IF v = "GearsBot" THEN Rep(gap, 3) ELSE <<word_gap>>

\* the inner loop: decoded_word += get(symbol, '') for symbol in word.split(gap)
RECURSIVE decode_symbols(_)
decode_symbols(symbols) ==
    IF symbols = <<>> THEN <<>>
    ELSE dict_get(Head(symbols)) \o decode_symbols(Tail(symbols))

decode_word(word) == decode_symbols(Split(word, <<gap>>))

\* the outer loop without the ' ' after each word
RECURSIVE decode_words_nospace(_)
decode_words_nospace(words) ==
    IF words = <<>> THEN <<>>
    ELSE decode_word(Head(words)) \o decode_words_nospace(Tail(words))

\* the outer loop: text_message += decoded_word + ' ' for each word
RECURSIVE decode_words(_)
decode_words(words) ==
    IF words = <<>> THEN <<>>
    ELSE decode_word(Head(words)) \o <<" ">> \o decode_words(Tail(words))

translate_to_text(v, message) ==
    Strip(decode_words(Split(message, word_separator(v))))

----------------------------------------------------------------------------
(* Classification of a closed red or white interval *)

Ok(first, msg) == [exc |-> "none", first |-> first, msg |-> msg]

Raise(e, first, msg) == [exc |-> e, first |-> first, msg |-> msg]

\* every colour is timed
is_signal_color_any(c) == TRUE

\* the colours whose intervals are timed
is_signal_color(c) == c \in {RED, WHITE}

\* GearsBot, white: every white interval calibrates again
white_GearsBot_recalibrate(d, first, msg) == Ok(d, msg)

\* GearsBot, white: the first white interval calibrates, later ones add gaps
white_GearsBot(d, first, msg) ==
    IF first = None THEN Ok(d, msg)
    ELSE IF first = 0 THEN Raise("ZeroDivisionError", first, msg)
    ELSE Ok(first, msg \o Rep(gap, RoundDiv(d, first)))

\* GearsBot, red: '<=' in place of '<'
red_GearsBot_le(d, first, msg) ==
    IF first = None THEN Raise("TypeError", first, msg)
    ELSE IF d <= 1 * first THEN Ok(first, msg \o <<dot>>)
    ELSE Ok(first, msg \o <<dash>>)

\* GearsBot, red: dot below the first signal's duration, dash otherwise
red_GearsBot(d, first, msg) ==
    IF first = None THEN Raise("TypeError", first, msg)
    ELSE IF d < 1 * first THEN Ok(first, msg \o <<dot>>)
    ELSE Ok(first, msg \o <<dash>>)

classify_GearsBot(color, d, first, msg) ==
    IF color = WHITE THEN white_GearsBot(d, first, msg)
    ELSE IF color = RED THEN red_GearsBot(d, first, msg)
    ELSE Ok(first, msg)

\* EV3: calibration by the first interval of either colour
calibrate_EV3_any(color, d, first) ==
    IF first = None THEN d ELSE first

\* EV3: first 'if' of the chain, calibration by the first white interval
calibrate_EV3(color, d, first) ==
    IF color = WHITE /\ first = None THEN d ELSE first

\* EV3: second 'if', dot or dash for red; 0.2 * first is first / 5
red_EV3(color, d, first, msg) ==
    IF color # RED THEN msg
    ELSE IF 5 * d < first THEN msg \o <<dot>>
    ELSE IF 5 * d > first THEN msg \o <<dash>>
    ELSE msg

\* EV3: the gap assigned to the message instead of appended to it
white_EV3_assign(color, d, first, msg) ==
    IF color = WHITE /\ 5 * d > first /\ 2 * d < first
    THEN <<gap>>
    ELSE msg

\* EV3: third 'if', a gap for white between 0.2 and 0.5 of the first duration
white_EV3(color, d, first, msg) ==
    IF color = WHITE /\ 5 * d > first /\ 2 * d < first
    THEN msg \o <<gap>>
    ELSE msg

\* EV3: fourth 'if', a word gap above 0.5 of the first duration, any colour
word_gap_EV3(color, d, first, msg) ==
    IF 2 * d > first THEN msg \o <<word_gap>> ELSE msg

classify_EV3(color, d, first, msg) ==
    LET f1 == calibrate_EV3(color, d, first)
    IN  IF color = RED /\ f1 = None THEN Raise("TypeError", first, msg)
        ELSE Ok(f1, word_gap_EV3(color, d, f1,
                        white_EV3(color, d, f1,
                            red_EV3(color, d, f1, msg))))

classify(v, color, d, first, msg) ==
    IF v = "GearsBot" THEN classify_GearsBot(color, d, first, msg)
    ELSE classify_EV3(color, d, first, msg)

\* every colour read as itself
alias_color_identity(raw) == raw

\* yellow and brown are read as red
alias_color(raw) == IF raw \in {YELLOW, BROWN} THEN RED ELSE raw

\* the end-of-message test with six gaps
end_of_message_six(msg) == EndsWith(msg, Rep(gap, END_GAPS - 1))

\* the end-of-message test of the loop
end_of_message(msg) == EndsWith(msg, Rep(gap, END_GAPS))

----------------------------------------------------------------------------
(* The program *)

NoText == <<"?">>

\* nothing has been observed yet
Unobserved ==
    /\ raw_color = None
    /\ first_sample_time = None
    /\ runs_ended = 0
    /\ intervals_closed = 0
    /\ duration_sum = 0

\* the state the constructor and initialize() leave behind
initialize ==
    /\ variant \in Variants
    /\ pc = "decode_path"
    /\ exception = "none"
    /\ now = 0
    /\ detected_color = None
    /\ obstacle_nearby = FALSE
    /\ last_detected_color = None
    /\ signal_start_time = 0
    /\ first_signal_duration = None
    /\ decoded_message = <<>>
    /\ morse_code_message = <<>>
    /\ text_message = <<>>
    /\ color_start_time = None
    /\ plain_text = NoText

Init ==
    /\ initialize
    /\ track = <<>>
    /\ Unobserved

\* the test that breaks the loop at the end of an iteration
loop_ends(obstacle, msg) == obstacle \/ end_of_message(msg)

\* the latest value time.time() has returned: the read of line 114 of an
\* iteration that closed an interval, the time of the iteration otherwise
clock == IF signal_start_time > now THEN signal_start_time ELSE now

\* one iteration of the 'while True' loop of decode_path, on the sample raw
\* taken at time t; lag is the time from the read of line 95 to that of
\* line 114
iteration(raw, t, lag, obstacle, max_len) ==
    LET detected == alias_color(raw)
        changed  == detected # last_detected_color
        closes   == changed /\ last_detected_color # None
                            /\ is_signal_color(last_detected_color)
        signal_duration == t - signal_start_time
        r == IF closes
             THEN classify(variant, last_detected_color, signal_duration,
                           first_signal_duration, decoded_message)
             ELSE Ok(first_signal_duration, decoded_message)
    IN  /\ Len(r.msg) <= max_len
        /\ now' = t
        /\ detected_color' = detected
        /\ obstacle_nearby' = obstacle
        /\ UNCHANGED <<variant, morse_code_message, text_message, plain_text>>
        /\ IF r.exc # "none"
           THEN /\ pc' = "raised"
                /\ exception' = r.exc
                /\ UNCHANGED <<last_detected_color, signal_start_time,
                               first_signal_duration, decoded_message,
                               color_start_time>>
           ELSE /\ first_signal_duration' = r.first
                /\ decoded_message' = r.msg
                /\ signal_start_time' = IF closes THEN t + lag
                                        ELSE signal_start_time
                /\ last_detected_color' = detected
                /\ color_start_time' = IF changed THEN t ELSE color_start_time
                /\ exception' = exception
                /\ pc' = IF loop_ends(obstacle, r.msg)
                         THEN "display_results" ELSE "decode_path"

decode_path ==
    /\ pc = "decode_path"
    /\ \E raw \in RawColors, dt \in 0..MaxStep, lag \in 0..MaxLag,
          obstacle \in BOOLEAN :
          /\ clock + dt + lag <= MaxTime
          /\ iteration(raw, clock + dt, lag, obstacle, MaxLen)
    /\ UNCHANGED <<track, observations>>

\* decode_path on a stretch of track that is white and black only, with no
\* obstacle in range: the runs that end by the end-of-message test
decode_path_gaps ==
    /\ pc = "decode_path"
    /\ \E raw \in {BLACK, WHITE}, dt \in 0..MaxStep, lag \in 0..MaxLag :
          /\ clock + dt + lag <= MaxGapTime
          /\ iteration(raw, clock + dt, lag, FALSE, MaxGapLen)
    /\ UNCHANGED <<track, observations>>

\* display_results: the GearsBot script strips the message before translating
display_results ==
    /\ pc = "display_results"
    /\ LET message == IF variant = "GearsBot" THEN Strip(decoded_message)
                      ELSE decoded_message
       IN  /\ decoded_message' = message
           /\ morse_code_message' = message
           /\ text_message' = translate_to_text(variant, message)
    /\ pc' = "exit"
    /\ UNCHANGED <<variant, exception, now, detected_color, obstacle_nearby,
                   last_detected_color, signal_start_time,
                   first_signal_duration, color_start_time, plain_text,
                   track, observations>>

Next == decode_path \/ display_results

Spec == Init /\ [][Next]_vars

NextGaps == decode_path_gaps \/ display_results

SpecGaps == Init /\ [][NextGaps]_vars

----------------------------------------------------------------------------
(* The loop driven over a given track *)

\* a track is a sequence of runs <<colour, length>>; EndToEndTrack is a mark
\* of 1, a gap of 1, a mark of 3 and a gap of 7
EndToEndTrack == <<<<RED, 1>>, <<WHITE, 1>>, <<RED, 3>>, <<WHITE, 7>>>>

\* the same track behind a white lead-in of some length
Tracks ==
    {EndToEndTrack} \cup
    {<<<<WHITE, w>>>> \o EndToEndTrack : w \in 1..MaxLead}

RECURSIVE TrackLength(_)
TrackLength(tr) ==
    IF tr = <<>> THEN 0 ELSE tr[1][2] + TrackLength(Tail(tr))

\* the colour under the sensor t ticks after the first sample: the run t
\* falls in, black past the end of the track
RECURSIVE ColorAt(_, _)
ColorAt(tr, t) ==
    IF tr = <<>> THEN BLACK
    ELSE IF t < tr[1][2] THEN tr[1][1]
    ELSE ColorAt(Tail(tr), t - tr[1][2])

InitTrack ==
    /\ initialize
    /\ track \in Tracks
    /\ Unobserved

\* decode_path with the sensor reading the track: the track begins under
\* the first sample, taken when announce_start has returned, and no tick
\* goes by without a sample
decode_path_track ==
    /\ pc = "decode_path"
    /\ \E t \in clock..(now + 1), lag \in 0..MaxLag, obstacle \in BOOLEAN :
          LET origin == IF first_sample_time = None THEN t
                        ELSE first_sample_time
          IN  /\ t + lag <= MaxTrackTime
              /\ iteration(ColorAt(track, t - origin), t, lag, obstacle,
                           MaxTrackLen)
              /\ first_sample_time' = origin
    /\ UNCHANGED <<track, raw_color, runs_ended, intervals_closed,
                   duration_sum>>

NextTrack == decode_path_track \/ display_results

SpecEndToEnd == InitTrack /\ [][NextTrack]_vars

----------------------------------------------------------------------------
(* The loop with its samples and intervals recorded *)

\* what one iteration on the sample raw, read at time t, adds to the record:
\* a run ends when the colour seen differs from the colour seen before; an
\* interval is closed when the iteration times it and classifies it
observe(raw, t) ==
    LET run_ends == detected_color # None /\ detected_color' # detected_color
        timed    == pc' # "raised"
                        /\ last_detected_color' # last_detected_color
                        /\ last_detected_color \in {RED, WHITE}
    IN  /\ raw_color' = raw
        /\ first_sample_time' = IF first_sample_time = None THEN t
                                ELSE first_sample_time
        /\ runs_ended' = runs_ended + (IF run_ends THEN 1 ELSE 0)
        /\ intervals_closed' = intervals_closed + (IF timed THEN 1 ELSE 0)
        /\ duration_sum' = duration_sum
                           + (IF timed THEN t - signal_start_time ELSE 0)

decode_path_observed ==
    /\ pc = "decode_path"
    /\ runs_ended < MaxRuns
    /\ \E raw \in RawColors, dt \in 0..MaxStep, lag \in 0..MaxLag,
          obstacle \in BOOLEAN :
          /\ clock + dt + lag <= MaxObsTime
          /\ iteration(raw, clock + dt, lag, obstacle, MaxObsLen)
          /\ observe(raw, clock + dt)
    /\ UNCHANGED track

NextObserved == decode_path_observed \/ display_results

SpecObserved == Init /\ [][NextObserved]_vars

----------------------------------------------------------------------------
(* translate_to_text called on its own, on any symbol string *)

Symbols == {dot, dash, gap, word_gap}

\* all strings over the alphabet S of length at most n
StringsUpTo(S, n) == UNION {[1..k -> S] : k \in 0..n}

SymbolStrings == StringsUpTo(Symbols, MaxMsgLen)

\* characters the plain texts are written with
SampleChars == {"A", "G", "S", "E", "T", "0"}

TableChars == {morse_to_alpha_numeric[c] : c \in DOMAIN morse_to_alpha_numeric}

\* texts of one table character, and texts of sample characters whose words
\* are separated by exactly one space
PlainTexts ==
    {<<c>> : c \in TableChars} \cup
    {t \in StringsUpTo(SampleChars \cup {" "}, MaxTextLen) :
        /\ t # <<>>
        /\ t[1] # " " /\ t[Len(t)] # " "
        /\ \A i \in 1..(Len(t) - 1) : ~(t[i] = " " /\ t[i + 1] = " ")}

\* the letter-code the table maps to ch
code_of(ch) ==
    CHOOSE c \in DOMAIN morse_to_alpha_numeric : morse_to_alpha_numeric[c] = ch

\* Morse writing of a text: letters of a word one gap apart, words one word
\* separator apart (three gaps for GearsBot, '|' for EV3)
RECURSIVE encode(_, _)
encode(v, t) ==
    IF t = <<>> THEN <<>>
    ELSE IF Len(t) = 1 THEN code_of(t[1])
    ELSE IF t[2] = " "
         THEN code_of(t[1])
              \o (IF v = "GearsBot" THEN <<gap, gap, gap>> ELSE <<word_gap>>)
              \o encode(v, SubSeq(t, 3, Len(t)))
    ELSE code_of(t[1]) \o <<gap>> \o encode(v, Tail(t))

InitT ==
    /\ variant \in Variants
    /\ pc = "translate_to_text"
    /\ exception = "none"
    /\ now = 0
    /\ detected_color = None
    /\ obstacle_nearby = FALSE
    /\ last_detected_color = None
    /\ signal_start_time = 0
    /\ first_signal_duration = None
    /\ decoded_message = <<>>
    /\ text_message = <<>>
    /\ color_start_time = None
    /\ track = <<>>
    /\ Unobserved
    /\ \/ /\ morse_code_message \in SymbolStrings
          /\ plain_text = NoText
       \/ /\ plain_text \in PlainTexts
          /\ morse_code_message = encode(variant, plain_text)

\* translate_to_text(morse_code_message)
translate_call ==
    /\ pc = "translate_to_text"
    /\ text_message' = translate_to_text(variant, morse_code_message)
    /\ pc' = "returned"
    /\ UNCHANGED <<variant, exception, now, detected_color, obstacle_nearby,
                   last_detected_color, signal_start_time,
                   first_signal_duration, decoded_message, morse_code_message,
                   color_start_time, plain_text, track, observations>>

NextT == translate_call

SpecT == InitT /\ [][NextT]_vars

----------------------------------------------------------------------------
(* Vocabulary of the properties *)

\* this step is a loop iteration that closes a red or white interval
Closes ==
    /\ pc = "decode_path"
    /\ last_detected_color \in {RED, WHITE}
    /\ detected_color' # last_detected_color

\* the duration the iteration measures for the interval it closes
Duration == now' - signal_start_time

\* this step appends exactly the symbols s to the stream
Appends(s) == decoded_message' = decoded_message \o s

Abs(x) == IF x < 0 THEN -x ELSE x

\* n is an integer nearest to d / u
Nearest(n, d, u) == 2 * Abs(d - n * u) <= u

\* n is the integer nearest to d / u, the even one of the two on a tie
NearestEven(n, d, u) ==
    /\ Nearest(n, d, u)
    /\ 2 * Abs(d - n * u) = u => n % 2 = 0

\* k gap symbols
Gaps(k) == [i \in 1..k |-> gap]

\* length of the run of gap symbols the string ends with
RECURSIVE TrailingGaps(_)
TrailingGaps(msg) ==
    IF msg = <<>> \/ msg[Len(msg)] # gap THEN 0
    ELSE 1 + TrailingGaps(SubSeq(msg, 1, Len(msg) - 1))

\* t is a contiguous part of s
PartOf(t, s) ==
    \E i \in 1..(Len(s) + 1) : \E j \in 0..Len(s) : t = SubSeq(s, i, j)

----------------------------------------------------------------------------
(* C1 *)

\* C1 as stated: in both variants a closed red interval, once the unit
\* duration is set, appends a dot when its duration is below the unit
\* duration and a dash otherwise.
C1_Original ==
    [][(Closes /\ last_detected_color = RED /\ first_signal_duration # None)
         => Appends(IF Duration < first_signal_duration
                    THEN <<dot>> ELSE <<dash>>)]_vars

\* C1 as amended: GearsBot compares a closed red interval with the unit
\* duration itself (dot below it, dash at or above it).  EV3 compares it with
\* a fifth of the unit duration: dot below, dash above, nothing when equal,
\* and then a word gap as well when the duration is above half the unit.
C1_MarkClassification ==
    [][(Closes /\ last_detected_color = RED /\ first_signal_duration # None)
         => IF variant = "GearsBot"
            THEN Appends(IF Duration < first_signal_duration
                         THEN <<dot>> ELSE <<dash>>)
            ELSE Appends(
                   (IF 5 * Duration < first_signal_duration THEN <<dot>>
                    ELSE IF 5 * Duration > first_signal_duration THEN <<dash>>
                    ELSE <<>>)
                   \o (IF 2 * Duration > first_signal_duration
                       THEN <<word_gap>> ELSE <<>>))]_vars

\* GearsBot calibrated at 1 by a white interval closed at tick 1, then a red
\* interval of exactly 1 closed at tick 2 and read as a dash
C1_Witness ==
    /\ variant = "GearsBot"
    /\ first_signal_duration = 1
    /\ now = 2
    /\ signal_start_time = 2
    /\ decoded_message = <<dash>>

----------------------------------------------------------------------------
(* C2 *)

\* C2: once first_signal_duration is set, no step changes it (nor unsets it).
C2_CalibrationFixed ==
    [][first_signal_duration # None
         => first_signal_duration' = first_signal_duration]_vars

\* a white interval was closed after the calibrating one: the GearsBot stream
\* holds a gap
C2_Witness ==
    /\ variant = "GearsBot"
    /\ first_signal_duration = 1
    /\ decoded_message = <<gap, gap>>
    /\ pc = "decode_path"

----------------------------------------------------------------------------
(* C3 *)

\* C3: the first closed red or white interval of a session sets the unit
\* duration to the measured duration and appends no symbol.
C3_FirstIntervalCalibrates ==
    [][(Closes /\ first_signal_duration = None)
         => /\ first_signal_duration' = Duration
            /\ decoded_message' = decoded_message]_vars

----------------------------------------------------------------------------
(* C4 *)

\* C4 as stated: a closed white interval, once the unit duration u is set,
\* appends nothing for d < u, round(d / u) gaps for u <= d < 3u, and a word
\* gap (three gaps in GearsBot, '|' in EV3) for d >= 3u.
C4_Original ==
    [][(Closes /\ last_detected_color = WHITE /\ first_signal_duration > 0)
         => LET d == Duration
                u == first_signal_duration
            IN  IF d < u THEN Appends(<<>>)
                ELSE IF d < 3 * u
                     THEN \E n \in 1..3 : Nearest(n, d, u) /\ Appends(Gaps(n))
                ELSE Appends(IF variant = "GearsBot"
                             THEN Gaps(3) ELSE <<word_gap>>)]_vars

\* C4 as amended: with unit duration u set and d the measured duration of a
\* closed white interval, GearsBot appends n gaps, n the integer nearest to
\* d / u (the even one on a tie), for every ratio, and with u = 0 it raises
\* ZeroDivisionError and appends nothing; EV3 appends one gap when
\* 0.2 u < d < 0.5 u, a word gap when d > 0.5 u, and nothing otherwise.
C4_GapClassification ==
    [][(Closes /\ last_detected_color = WHITE /\ first_signal_duration # None)
         => LET d == Duration
                u == first_signal_duration
            IN  IF variant = "GearsBot"
                THEN IF u = 0
                     THEN /\ exception' = "ZeroDivisionError"
                          /\ Appends(<<>>)
                     ELSE \E n \in 0..(MaxGapLen + 1) :
                             NearestEven(n, d, u) /\ Appends(Gaps(n))
                ELSE Appends(
                       (IF 5 * d > u /\ 2 * d < u THEN <<gap>> ELSE <<>>)
                       \o (IF 2 * d > u THEN <<word_gap>> ELSE <<>>))]_vars

\* GearsBot calibrated at 2, then a white interval closed at tick 7 with
\* ratio 5/2: two gaps (the tie goes to the even count)
C4_Witness ==
    /\ variant = "GearsBot"
    /\ first_signal_duration = 2
    /\ signal_start_time = 7
    /\ now = 7
    /\ decoded_message = <<gap, gap>>

----------------------------------------------------------------------------
(* C5 *)

\* C5: with no obstacle, an iteration leaves the loop exactly when the stream
\* it produced ends with 7 or more gaps; after the loop is left it is never
\* entered again, the unit duration stays, and no symbol is added.
C5_Termination ==
    [][/\ (pc = "decode_path" /\ pc' # "raised" /\ ~obstacle_nearby')
            => (pc' = "display_results" <=> TrailingGaps(decoded_message') >= 7)
       /\ pc = "decode_path" => TrailingGaps(decoded_message) < 7
       /\ pc # "decode_path"
            => /\ pc' # "decode_path"
               /\ first_signal_duration' = first_signal_duration
               /\ PartOf(decoded_message', decoded_message)]_vars

\* the EV3 loop was left with no obstacle: seven one-gap white intervals
\* in a row
C5_Witness ==
    /\ variant = "EV3"
    /\ pc = "display_results"
    /\ ~obstacle_nearby
    /\ TrailingGaps(decoded_message) = 7

----------------------------------------------------------------------------
(* C6 *)

\* C6: the duration measured for a closed red or white interval is the time
\* of the sample that ends it minus the time of the sample at which its colour
\* was first seen, i.e. the interval is timed from the start of its own run.
C6_DurationOfRun ==
    [][(Closes /\ pc' # "raised") => Duration = now' - color_start_time]_vars

----------------------------------------------------------------------------
(* C7 *)

\* C7: a loop iteration changes the unit duration or the symbol stream only
\* when it closes a red or white interval; a repeated colour, the first
\* sample and a change away from any other colour leave both as they are.
C7_OnlySignalIntervalsWrite ==
    [][(/\ pc = "decode_path"
        /\ \/ first_signal_duration' # first_signal_duration
           \/ decoded_message' # decoded_message)
         => /\ last_detected_color \in {RED, WHITE}
            /\ detected_color' # last_detected_color]_vars

\* EV3, calibrated, on white again after a black run: the change away from
\* black at tick 2 closed no interval (the timer still starts at tick 1) and
\* left the stream at the one word gap of the calibrating interval
C7_Witness ==
    /\ variant = "EV3"
    /\ pc = "decode_path"
    /\ first_signal_duration = 1
    /\ last_detected_color = WHITE
    /\ signal_start_time = 1
    /\ color_start_time = 2
    /\ decoded_message = <<word_gap>>

----------------------------------------------------------------------------
(* C8 *)

OutChars == TableChars \cup {" "}

\* the message holds no word separator of the variant
OneWord(v, msg) ==
    /\ \A i \in 1..Len(msg) : msg[i] # word_gap
    /\ v = "GearsBot" =>
         \A i \in 1..(Len(msg) - 2) :
            ~(msg[i] = gap /\ msg[i + 1] = gap /\ msg[i + 2] = gap)

\* the characters of the letter-codes of a list that the table knows, in order
KnownLetters(codes) ==
    LET known == SelectSeq(codes, LAMBDA c : c \in DOMAIN morse_to_alpha_numeric)
    IN  [i \in 1..Len(known) |-> morse_to_alpha_numeric[known[i]]]

\* C8: translate_to_text returns a string for every symbol string, and in a
\* message of one word the letter-codes the table lacks add nothing while the
\* others are translated in order.
C8_TranslateTotal ==
    pc = "returned" =>
        /\ text_message \in Seq(OutChars)
        /\ OneWord(variant, morse_code_message) =>
             text_message = KnownLetters(Split(morse_code_message, <<gap>>))

\* '.-.- .' was translated: the unknown code '.-.-' is dropped, '.' gives E
C8_Witness ==
    /\ pc = "returned"
    /\ morse_code_message = <<dot, dash, dot, dash, gap, dot>>
    /\ text_message = <<"E">>

----------------------------------------------------------------------------
(* C9 *)

\* C9: the returned text has no leading or trailing space and no two
\* consecutive spaces.
C9_SingleSpaced ==
    pc = "returned" =>
        /\ text_message # <<>> =>
             text_message[1] # " " /\ text_message[Len(text_message)] # " "
        /\ \A i \in 1..(Len(text_message) - 1) :
             ~(text_message[i] = " " /\ text_message[i + 1] = " ")

----------------------------------------------------------------------------
(* C10 *)

\* C10: a message written from a text (letters one gap apart, words one word
\* separator apart) translates back to that text.
C10_TableTranslation ==
    (pc = "returned" /\ plain_text # NoText) => text_message = plain_text

\* 'A GS' was written as '.-', word separator, '--.', gap, '...' and
\* translated back
C10_Witness ==
    /\ pc = "returned"
    /\ plain_text = <<"A", " ", "G", "S">>
    /\ text_message = <<"A", " ", "G", "S">>

----------------------------------------------------------------------------
(* C11 *)

\* C11: a fresh session driven over a mark of 1, a gap of 1, a mark of 3 and
\* a gap of 7 never fails; when the gap of 7 has been closed, with no
\* obstacle, the loop has ended and the stream is a dot, a gap and a dash
\* followed by gap or word-gap symbols only; the text then shown is "ET".
C11_EndToEnd ==
    track = EndToEndTrack =>
        /\ pc # "raised"
        /\ (now - first_sample_time >= TrackLength(track)
                                       /\ detected_color = BLACK
                                       /\ ~obstacle_nearby)
              => pc # "decode_path"
        /\ (pc = "display_results" /\ ~obstacle_nearby)
              => /\ Len(decoded_message) > 3
                 /\ SubSeq(decoded_message, 1, 3) = <<dot, gap, dash>>
                 /\ \A i \in 4..Len(decoded_message) :
                        decoded_message[i] \in {gap, word_gap}
        /\ (pc = "exit" /\ ~obstacle_nearby)
              => text_message = <<"E", "T">>

----------------------------------------------------------------------------
(* C12 *)

\* C12: an iteration in which the obstacle is in range ends the loop by its
\* break, whatever the decoder state, and goes on to display_results; the
\* stream it leaves is the stream it found, extended by what the interval
\* it closed appended (unchanged when it closed none), and display_results
\* then translates that stream to a string.
C12_ObstacleStops ==
    [][/\ (pc = "decode_path" /\ obstacle_nearby')
            => /\ pc' = "display_results"
               /\ ~Closes
                     => /\ decoded_message' = decoded_message
                        /\ first_signal_duration' = first_signal_duration
               /\ Len(decoded_message') >= Len(decoded_message)
               /\ SubSeq(decoded_message', 1, Len(decoded_message))
                     = decoded_message
       /\ (pc = "display_results" /\ obstacle_nearby)
            => pc' = "exit" /\ text_message' \in Seq(OutChars)
      ]_vars

----------------------------------------------------------------------------
(* C13 *)

\* C13: closing a red or white interval whose duration is zero or negative
\* changes neither the unit duration nor the symbol stream; the unit
\* duration is never zero, and no step divides by a zero unit.
C13_NonPositiveRejected ==
    [][/\ (Closes /\ Duration <= 0)
            => /\ first_signal_duration' = first_signal_duration
               /\ decoded_message' = decoded_message
       /\ first_signal_duration' # 0
       /\ exception' # "ZeroDivisionError"
      ]_vars

----------------------------------------------------------------------------
(* C14 *)

\* C14: as long as no iteration has failed, one interval has been closed for
\* every colour run that has ended, and when the last sample ended a run the
\* durations measured for the closed intervals add up to the time from the
\* first sample to the last.
C14_Segmentation ==
    pc # "raised" =>
        /\ intervals_closed = runs_ended
        /\ (first_sample_time # None /\ color_start_time = now)
              => duration_sum = now - first_sample_time

----------------------------------------------------------------------------
(* C15 *)

\* C15 as stated: the unit duration is only ever set by closing a red
\* interval, to the duration of that interval.
C15_Original ==
    [][first_signal_duration' # first_signal_duration
          => /\ Closes
             /\ last_detected_color = RED
             /\ first_signal_duration' = Duration
      ]_vars

\* C15 as amended: the unit duration is only ever set by closing a white
\* interval while it is unset, to the duration measured for that interval,
\* and every white interval closed while it is unset sets it: where it is
\* set, it is the duration measured for the first closed white interval of
\* the session, never that of a red one.
C15_UnitFromFirstWhite ==
    [][/\ first_signal_duration' # first_signal_duration
            => /\ Closes
               /\ last_detected_color = WHITE
               /\ first_signal_duration = None
               /\ first_signal_duration' = Duration
       /\ (Closes /\ last_detected_color = WHITE
                  /\ first_signal_duration = None)
            => first_signal_duration' = Duration
      ]_vars

\* the unit is set, a red interval has been classified against it and a red
\* run is under way
C15_Witness ==
    /\ first_signal_duration \notin {None, 0}
    /\ exception = "none"
    /\ \E i \in 1..Len(decoded_message) : decoded_message[i] \in {dot, dash}
    /\ last_detected_color = RED

----------------------------------------------------------------------------
(* C16 *)

\* the symbols a variant declares in code_symbols
DeclaredSymbols(v) ==
    IF v = "GearsBot" THEN {".", "-", " "} ELSE {".", "-", " ", "|"}

\* C16: across every iteration of decode_path the stream before is a prefix
\* of the stream after, and every character added is one of the symbols the
\* variant declares.
C16_AppendOnly ==
    [][pc = "decode_path"
          => /\ Len(decoded_message') >= Len(decoded_message)
             /\ SubSeq(decoded_message', 1, Len(decoded_message))
                   = decoded_message
             /\ \A i \in (Len(decoded_message) + 1)..Len(decoded_message') :
                    decoded_message'[i] \in DeclaredSymbols(variant)
      ]_vars

\* a stream of the EV3 variant to which a gap was appended after other symbols
C16_Witness ==
    /\ variant = "EV3"
    /\ pc = "decode_path"
    /\ Len(decoded_message) >= 3
    /\ decoded_message[Len(decoded_message)] = " "
    /\ \E i \in 1..Len(decoded_message) : decoded_message[i] \in {".", "-"}

----------------------------------------------------------------------------
(* C18 *)

\* C18: with the unit duration set (to a positive value), closing a red
\* interval of positive duration appends exactly one symbol, a dot or a dash.
C18_MarkAppendsOneSymbol ==
    [][(Closes /\ last_detected_color = RED /\ first_signal_duration > 0
               /\ Duration > 0)
          => Appends(<<dot>>) \/ Appends(<<dash>>)
      ]_vars

----------------------------------------------------------------------------
(* C19 *)

\* C19: the loop never fails: it never compares a duration with an unset
\* unit and never divides by a zero unit.
C19_NoErrorState ==
    /\ pc # "raised"
    /\ exception = "none"

----------------------------------------------------------------------------
(* C20 *)

\* the colour codes the loop reads as red
ReadAsRed == {4, 5, 7}

\* C20: the step an iteration takes on a yellow or brown sample is the step
\* it takes on a red sample read at the same time, so that a run of samples
\* and the same run with yellow and brown replaced by red leave the same
\* unit duration and symbol stream; and a sample of red, yellow or brown
\* that follows one of these three closes no interval.
C20_AliasesOfRed ==
    [][/\ (pc = "decode_path" /\ raw_color' \in {4, 7})
            => /\ \E lag \in 0..MaxLag :
                     iteration(5, now', lag, obstacle_nearby', MaxObsLen)
               /\ detected_color' = 5
       /\ (pc = "decode_path" /\ raw_color \in ReadAsRed
                              /\ raw_color' \in ReadAsRed)
            => /\ intervals_closed' = intervals_closed
               /\ signal_start_time' = signal_start_time
               /\ first_signal_duration' = first_signal_duration
               /\ decoded_message' = decoded_message
               /\ pc' # "raised"
      ]_vars

\* a brown sample taken in the middle of a run that began with another of
\* the three colours, with the unit duration set
C20_Witness ==
    /\ raw_color = 7
    /\ last_detected_color = 5
    /\ first_signal_duration # None
    /\ color_start_time < now
    /\ runs_ended >= 2

====
